---- MODULE Spec2Model ----
(***************************************************************************)
(* A model of go-duckdb's Appender (appender.go): the row batcher that     *)
(* packs rows into fixed-capacity data chunks, hands them to the engine    *)
(* on Flush and Close, and releases its native resources.                  *)
(*                                                                         *)
(* The native layer (data chunks, the engine's appender handle, logical    *)
(* type descriptors) is seen through the calls the Go code makes on it:    *)
(* every operation records the native calls it made, in order, in `trace`, *)
(* and the outcome of each fallible native call is an input of the action. *)
(* Row and column indexes are 0-based, as in the Go code.                  *)
(***************************************************************************)
EXTENDS Integers, Sequences, FiniteSets, TLC

\* Number of columns of the table: len(a.types).
NumCols == 2

\* Most data chunks one appender allocates over its lifetime in the model.
MaxChunks == 4

\* The values GetDataChunkCapacity() may have; the appender reads it, it never sets it.
CapValues == {2, 3, 12}

\* A driver.Value is either one the column's vector accepts or one it rejects.
ValueKinds == {"good", "bad"}

\* What happens to one chunk in appendDataChunks: both native calls succeed,
\* SetSize fails, or the engine's append call fails.
ChunkOutcomes == {"ok", "sizeErr", "appendErr"}

VARIABLES
    capacity,   \* GetDataChunkCapacity()
    closed,     \* Appender.closed
    chunks,     \* Appender.chunks: sequence of [id, cells]
    rowCount,   \* Appender.rowCount
    appender,   \* Appender.appender: the native handle, "live" or "destroyed"
    typesDestroyed, \* per column, how often its logical type was destroyed
    nextChunk,  \* id the next allocated data chunk gets
    released,   \* per chunk id, how often its native memory was released
    trace,      \* the native calls of the last operation, in order
    ret,        \* the last operation and the error it returned ({} is nil)
    pre,        \* the Appender's fields when the last operation was called
    okRows,     \* AppendRow calls that returned nil since construction or the last flush
    clean,      \* no AppendRow call failed since construction or the last flush
    partial,    \* <<chunk id, row>> of a row left partly written by a failed
                \* AppendRow and not yet rewritten or flushed; <<>> when none
    ctor,       \* a NewAppender call in progress: its inputs, position and resources
    conv        \* a value conversion of types.go: the function, its input, its result

\* The fields and history of a constructed Appender.
appenderVars == <<capacity, closed, chunks, rowCount, appender, typesDestroyed,
                  nextChunk, released, trace, ret, pre, okRows, clean, partial>>

vars == <<appenderVars, ctor, conv>>

\* No NewAppender call in progress; no conversion applied.
CtorIdle == [pc |-> "idle"]

ConvIdle == [f |-> "none"]

----------------------------------------------------------------------------
\* Errors. An error value is the set of the error constants it wraps; nil is {}.

nil == {}

\* getError(errDriver, err): wraps both into one error.
getError(errDriver, err) == errDriver \cup err

\* invalidatedAppenderError(err): err, marked as having invalidated the appender.
invalidatedAppenderError(err) == err \cup {"invalidatedAppender"}

\* errors.Join: nil when all are nil, otherwise an error holding every non-nil one.
errorsJoin(e1, e2, e3) == e1 \cup e2 \cup e3

----------------------------------------------------------------------------
\* One native call: its name, the chunk, column and row or size it is about
\* (-1 when it has none), the handle it was made on, and whether it succeeded.

Call(name, chunk, col, n, handle, ok) ==
    [call |-> name, chunk |-> chunk, col |-> col, n |-> n, handle |-> handle, ok |-> ok]

Snapshot == [chunks |-> chunks, rowCount |-> rowCount, closed |-> closed, partial |-> partial]

Ids(chs) == {chs[i].id : i \in 1..Len(chs)}

----------------------------------------------------------------------------
\* appendRowSlice and addDataChunk.

\* A faulty early-out that rejects only too many args.
ArgCountAtMost(n, ncols) == n <= ncols

\* The early-out of appendRowSlice: the number of args matches the column count.
ArgCountOk(n, ncols) == n = ncols

\* A faulty test that starts a new chunk one row early.
NeedsNewChunkEarly(rc, n, cap) == rc + 1 >= cap \/ n = 0

\* A faulty test that starts a new chunk one row late.
NeedsNewChunkLate(rc, n, cap) == rc > cap \/ n = 0

\* A new data chunk is created when the current one is full or there is none.
NeedsNewChunk(rc, n, cap) == rc = cap \/ n = 0

\* addDataChunk, when initFromTypes succeeds: a fresh, empty chunk joins the list.
addDataChunk(chs, id) == Append(chs, [id |-> id, cells |-> {}])

\* The 1-based position of the first value SetValue rejects, 0 when it accepts all.
FirstBad(args) ==
    IF \E i \in 1..Len(args) : args[i] = "bad"
    THEN CHOOSE i \in 1..Len(args) :
             args[i] = "bad" /\ \A j \in 1..(i - 1) : args[j] # "bad"
    ELSE 0

\* The row index the values of a row are written at.
WriteRow(rc) == rc

\* The SetValue loop: the columns before the first rejected value are written
\* into the last chunk, at row WriteRow(rc).
SetValues(chs, rc, args) ==
    LET bad     == FirstBad(args)
        written == IF bad = 0 THEN Len(args) ELSE bad - 1
        last    == Len(chs)
    IN  [chs EXCEPT ![last].cells = @ \cup {<<i - 1, WriteRow(rc)>> : i \in 1..written}]

\* The SetValue calls the loop makes: one per column, up to the first that fails.
SetValueCalls(chs, rc, args) ==
    LET bad   == FirstBad(args)
        tried == IF bad = 0 THEN Len(args) ELSE bad
    IN  [i \in 1..tried |->
            Call("SetValue", chs[Len(chs)].id, i - 1, WriteRow(rc), "none", i # bad)]

\* A faulty row counter that also counts a row whose write failed.
RowCountAlwaysIncremented(rc, bad) == rc + 1

\* The row counter after a row: incremented when every value was written.
RowCountAfterRow(rc, bad) == IF bad = 0 THEN rc + 1 ELSE rc

\* appendRowSlice(args): the error it returns and the appender's fields after it.
\* allocOk is the outcome of initFromTypes, should a chunk be needed.
appendRowSlice(args, allocOk) ==
    LET same == [err |-> nil, chunks |-> chunks, rowCount |-> rowCount,
                 nextChunk |-> nextChunk, calls |-> <<>>]
    IN  IF ~ArgCountOk(Len(args), NumCols)
        THEN [same EXCEPT !.err = {"columnCountError"}]
        ELSE
        LET need == NeedsNewChunk(rowCount, Len(chunks), capacity)
            init == IF need
                    THEN <<Call("initFromTypes", nextChunk, -1, -1, "none", allocOk)>>
                    ELSE <<>>
        IN  IF need /\ ~allocOk
            THEN [same EXCEPT !.err = {"initFromTypesError"}, !.calls = init]
            ELSE
            LET chs1 == IF need THEN addDataChunk(chunks, nextChunk) ELSE chunks
                rc1  == IF need THEN 0 ELSE rowCount
                nc1  == IF need THEN nextChunk + 1 ELSE nextChunk
                bad  == FirstBad(args)
            IN  [err       |-> IF bad = 0 THEN nil ELSE {"setValueError"},
                 chunks    |-> SetValues(chs1, rc1, args),
                 rowCount  |-> RowCountAfterRow(rc1, bad),
                 nextChunk |-> nc1,
                 calls     |-> init \o SetValueCalls(chs1, rc1, args)]

\* A faulty AppendRow that does not look at a.closed.
AppendAfterCloseAllowed(cl) == FALSE

\* The early-out of AppendRow: the appender is closed.
AppendAfterClose(cl) == cl

\* AppendRow(args...).
AppendRow ==
    \E n \in 0..(NumCols + 1) : \E args \in [1..n -> ValueKinds] : \E allocOk \in BOOLEAN :
        \* The values are read only once the closed and count checks have passed.
        /\ (closed \/ ~ArgCountOk(n, NumCols)) => \A i \in 1..n : args[i] = "good"
        \* initFromTypes is called, and its outcome is an input, only when a chunk is needed.
        /\ allocOk \/ (~closed /\ ArgCountOk(n, NumCols)
                         /\ NeedsNewChunk(rowCount, Len(chunks), capacity))
        /\ (~closed /\ ArgCountOk(n, NumCols) /\ allocOk
              /\ NeedsNewChunk(rowCount, Len(chunks), capacity)) => nextChunk <= MaxChunks
        /\ pre' = Snapshot
        /\ IF AppendAfterClose(closed)
           THEN /\ ret' = [op |-> "AppendRow", nargs |-> n,
                           err |-> getError({"errAppenderAppendAfterClose"}, nil)]
                /\ trace' = <<>>
                /\ UNCHANGED <<chunks, rowCount, nextChunk, okRows, clean, partial>>
           ELSE LET r == appendRowSlice(args, allocOk)
                IN  /\ chunks' = r.chunks
                    /\ rowCount' = r.rowCount
                    /\ nextChunk' = r.nextChunk
                    /\ trace' = r.calls
                    /\ ret' = [op |-> "AppendRow", nargs |-> n,
                               err |-> IF r.err # nil
                                       THEN getError({"errAppenderAppendRow"}, r.err)
                                       ELSE nil]
                    /\ okRows' = IF r.err = nil THEN okRows + 1 ELSE okRows
                    /\ clean' = (clean /\ r.err = nil)
                    /\ partial' = IF r.err = nil THEN <<>>
                                  ELSE IF "setValueError" \in r.err
                                  THEN <<r.chunks[Len(r.chunks)].id, r.rowCount>>
                                  ELSE partial
        /\ UNCHANGED <<capacity, closed, appender, typesDestroyed, released, ctor, conv>>

----------------------------------------------------------------------------
\* appendDataChunks.

\* A faulty size that takes every chunk, the last included, to be full.
ChunkSizeFull(i, n, rc, cap) == cap

\* The logical size chunk i of n gets: all but the last are at full capacity.
ChunkSize(i, n, rc, cap) == IF i = n THEN rc ELSE cap

\* A faulty loop that goes on to the next chunk after a failed call.
LoopNeverBreaks(outcome) == FALSE

\* Whether the loop over the chunks stops after a chunk with this outcome.
LoopBreaks(outcome) == outcome # "ok"

\* The first loop, from chunk i on: the native calls made and the error left in err.
RECURSIVE appendLoop(_, _, _, _, _, _)
appendLoop(chs, i, rc, cap, handle, out) ==
    IF i > Len(chs)
    THEN [err |-> nil, calls |-> <<>>]
    ELSE
    LET size  == ChunkSize(i, Len(chs), rc, cap)
        setc  == Call("SetSize", chs[i].id, -1, size, "none", out[i] # "sizeErr")
        appc  == Call("AppendDataChunk", chs[i].id, -1, size, handle, out[i] # "appendErr")
        errc  == Call("AppenderError", -1, -1, -1, handle, TRUE)
        here  == IF out[i] = "sizeErr" THEN <<setc>>
                 ELSE IF out[i] = "appendErr" THEN <<setc, appc, errc>>
                 ELSE <<setc, appc>>
        err   == IF out[i] = "sizeErr" THEN {"setSizeError"}
                 ELSE IF out[i] = "appendErr" THEN {"appendChunkError"}
                 ELSE nil
    IN  IF LoopBreaks(out[i])
        THEN [err |-> err, calls |-> here]
        ELSE LET rest == appendLoop(chs, i + 1, rc, cap, handle, out)
             IN  [err |-> IF rest.err # nil THEN rest.err ELSE err,
                  calls |-> here \o rest.calls]

\* A faulty second loop that leaves out the last chunk.
ChunksButLast(chs) == SubSeq(chs, 1, Len(chs) - 1)

\* The outcomes are inputs for the chunks the loop gets to: none is drawn for
\* a chunk after the one the loop stopped at.
OutcomesUsed(out) ==
    \A i \in DOMAIN out : (\E j \in 1..(i - 1) : LoopBreaks(out[j])) => out[i] = "ok"

\* The chunks the second loop closes.
ChunksToClose(chs) == chs

\* The second loop: chunk.close() for every chunk of the list.
CloseCalls(chs) ==
    [i \in 1..Len(ChunksToClose(chs)) |->
        Call("chunkClose", ChunksToClose(chs)[i].id, -1, -1, "none", TRUE)]

\* The release counts after the second loop.
ReleaseAll(chs, rel) ==
    [id \in DOMAIN rel |->
        rel[id] + Cardinality({i \in 1..Len(ChunksToClose(chs)) : ChunksToClose(chs)[i].id = id})]

\* A faulty reset that keeps the row counter.
RowCountKept(rc) == rc

\* A faulty reset that keeps the chunk list.
ChunksAfterAppendKept(chs) == chs

\* The chunk list and the row counter appendDataChunks leaves.
ChunksAfterAppend(chs) == <<>>

RowCountAfterAppend(rc) == 0

\* appendDataChunks(): the error it returns, its native calls, the fields after it.
appendDataChunks(out) ==
    LET loop == appendLoop(chunks, 1, rowCount, capacity, appender, out)
    IN  [err      |-> loop.err,
         calls    |-> loop.calls \o CloseCalls(chunks),
         chunks   |-> ChunksAfterAppend(chunks),
         rowCount |-> RowCountAfterAppend(rowCount),
         released |-> ReleaseAll(chunks, released)]

----------------------------------------------------------------------------
\* Flush.

\* The engine's flush call and, when it fails, the fetch of its error string.
EngineFlushCalls(handle, flushOk) ==
    <<Call("AppenderFlush", -1, -1, -1, handle, flushOk)>>
    \o (IF flushOk THEN <<>> ELSE <<Call("AppenderError", -1, -1, -1, handle, TRUE)>>)

Flush ==
    \E out \in [1..Len(chunks) -> ChunkOutcomes] : \E flushOk \in BOOLEAN :
        LET r == appendDataChunks(out)
        IN  /\ OutcomesUsed(out)
            /\ pre' = Snapshot
            /\ chunks' = r.chunks
            /\ rowCount' = r.rowCount
            /\ released' = r.released
            /\ okRows' = 0
            /\ clean' = TRUE
            /\ partial' = <<>>
            /\ IF r.err # nil
               THEN /\ trace' = r.calls
                    /\ ret' = [op |-> "Flush", nargs |-> -1,
                               err |-> getError({"errAppenderFlush"},
                                                invalidatedAppenderError(r.err))]
               ELSE /\ trace' = r.calls \o EngineFlushCalls(appender, flushOk)
                    /\ ret' = [op |-> "Flush", nargs |-> -1,
                               err |-> IF flushOk THEN nil
                                       ELSE getError({"errAppenderFlush"},
                                                invalidatedAppenderError({"flushError"}))]
            /\ UNCHANGED <<capacity, closed, appender, typesDestroyed, nextChunk, ctor, conv>>

----------------------------------------------------------------------------
\* Close.

\* A faulty Close that marks the appender closed only when every step succeeded.
ClosedOnlyOnSuccess(errAppend, errFlush, errClose) ==
    errAppend = nil /\ errFlush = nil /\ errClose = nil

\* a.closed after a Close call that passed the double-close check.
ClosedAfterClose(errAppend, errFlush, errClose) == TRUE

\* A faulty destroyTypeSlice that destroys nothing.
destroyTypeSliceNone(td) == td

\* destroyTypeSlice(a.types): one DestroyLogicalType per column type.
destroyTypeSlice(td) == [c \in DOMAIN td |-> td[c] + 1]

DestroyTypeCalls ==
    [c \in 1..NumCols |-> Call("DestroyLogicalType", -1, c - 1, -1, "none", TRUE)]

\* A faulty Close that returns the error of the last failed step only.
CloseErrorLastOnly(errAppend, errFlush, errClose) ==
    LET err == IF errClose # nil THEN errClose
               ELSE IF errFlush # nil THEN errFlush ELSE errAppend
    IN  IF err # nil THEN getError(invalidatedAppenderError(err), nil) ELSE nil

\* The error Close returns from the errors of its three fallible steps.
CloseError(errAppend, errFlush, errClose) ==
    LET err == errorsJoin(errAppend, errFlush, errClose)
    IN  IF err # nil THEN getError(invalidatedAppenderError(err), nil) ELSE nil

Close ==
    \E out \in [1..Len(chunks) -> ChunkOutcomes] : \E flushOk, destroyOk \in BOOLEAN :
        /\ OutcomesUsed(out)
        /\ closed => (flushOk /\ destroyOk)
        /\ pre' = Snapshot
        /\ IF closed
           THEN /\ ret' = [op |-> "Close", nargs |-> -1,
                           err |-> getError({"errAppenderDoubleClose"}, nil)]
                /\ trace' = <<>>
                /\ UNCHANGED <<closed, chunks, rowCount, appender, typesDestroyed,
                               released, okRows, clean, partial>>
           ELSE LET r        == appendDataChunks(out)
                    errFlush == IF flushOk THEN nil ELSE {"flushError"}
                    errClose == IF destroyOk THEN nil ELSE {"errAppenderClose"}
                IN  /\ closed' = ClosedAfterClose(r.err, errFlush, errClose)
                    /\ chunks' = r.chunks
                    /\ rowCount' = r.rowCount
                    /\ released' = r.released
                    /\ okRows' = 0
                    /\ clean' = TRUE
                    /\ partial' = <<>>
                    /\ typesDestroyed' = destroyTypeSlice(typesDestroyed)
                    /\ appender' = "destroyed"
                    /\ trace' = r.calls \o EngineFlushCalls(appender, flushOk)
                                  \o DestroyTypeCalls
                                  \o <<Call("AppenderDestroy", -1, -1, -1, appender, destroyOk)>>
                    /\ ret' = [op |-> "Close", nargs |-> -1,
                               err |-> CloseError(r.err, errFlush, errClose)]
        /\ UNCHANGED <<capacity, nextChunk, ctor, conv>>

----------------------------------------------------------------------------
\* The state NewAppender returns: open, no chunk, every column type acquired.

Init ==
    /\ capacity \in CapValues
    /\ closed = FALSE
    /\ chunks = <<>>
    /\ rowCount = 0
    /\ appender = "live"
    /\ typesDestroyed = [c \in 1..NumCols |-> 0]
    /\ nextChunk = 1
    /\ released = [id \in 1..MaxChunks |-> 0]
    /\ trace = <<>>
    /\ ret = [op |-> "NewAppender", nargs |-> -1, err |-> nil]
    /\ pre = [chunks |-> <<>>, rowCount |-> 0, closed |-> FALSE, partial |-> <<>>]
    /\ okRows = 0
    /\ clean = TRUE
    /\ partial = <<>>
    /\ ctor = CtorIdle
    /\ conv = ConvIdle

Next == AppendRow \/ Flush \/ Close

Spec == Init /\ [][Next]_vars

----------------------------------------------------------------------------
\* Notions the properties below are stated with.

\* The last operation was a Close call that passed the double-close check.
FirstClose == ret.op = "Close" /\ ~pre.closed

\* The last operation ran appendDataChunks: a Flush, or the first Close.
Flushed == ret.op = "Flush" \/ FirstClose

\* The ids of the chunks buffered when the last operation was called, in list order.
PreIds == [i \in 1..Len(pre.chunks) |-> pre.chunks[i].id]

\* The calls of the last operation with the given name, in order.
CallsOf(name) == SelectSeq(trace, LAMBDA c : c.call = name)

\* The ids of the chunks the last operation handed to the engine's append call.
HandedIds == [k \in 1..Len(CallsOf("AppendDataChunk")) |-> CallsOf("AppendDataChunk")[k].chunk]

\* The rows of a chunk in which every column has been written.
CompleteRows(chunk) == {r \in 0..capacity : \A c \in 0..(NumCols - 1) : <<c, r>> \in chunk.cells}

\* The rows of a chunk in which some column has been written.
TouchedRows(chunk) == {cell[2] : cell \in chunk.cells}

CeilDiv(a, b) == (a + b - 1) \div b

----------------------------------------------------------------------------
\* C1: the first Close marks the appender closed whatever its flush and destroy
\* steps return, every later Close returns the double-close error, and no
\* AppendRow, Flush or Close call takes a closed appender back to open.
C1_CloseIsFinal ==
    /\ FirstClose => closed
    /\ (ret.op = "Close" /\ pre.closed) => ret.err = {"errAppenderDoubleClose"}
    /\ pre.closed => closed

\* A first Close in which the chunk append, the engine flush and the handle
\* destroy all failed.
C1_Witness ==
    /\ FirstClose /\ closed
    /\ {"appendChunkError", "flushError", "errAppenderClose"} \subseteq ret.err

\* C2: after N >= 1 AppendRow calls that all succeeded, starting with no buffered
\* chunk, there are ceil(N / capacity) chunks, all but the last hold capacity
\* rows and the last holds the rest; capacity*3 + 10 rows (capacity at least 10)
\* give 4 chunks with 10 rows in the last.
C2_ChunkLayout ==
    (okRows >= 1 /\ clean) =>
        /\ Len(chunks) = CeilDiv(okRows, capacity)
        /\ rowCount = okRows - (Len(chunks) - 1) * capacity
        /\ \A i \in 1..Len(chunks) :
              CompleteRows(chunks[i]) =
                  0..((IF i = Len(chunks) THEN rowCount ELSE capacity) - 1)
        /\ (okRows = capacity * 3 + 10 /\ capacity >= 10) =>
              (Len(chunks) = 4 /\ rowCount = 10)

\* capacity*3 + 10 rows appended: four chunks, ten rows in the last, which is not full.
C2_Witness ==
    /\ okRows = capacity * 3 + 10 /\ clean /\ capacity > 10
    /\ Len(chunks) = 4 /\ rowCount = 10

\* C3: after every Flush, failed or not, the chunk list is empty, the row counter
\* is 0 and an open appender is still open; a successful AppendRow on an empty
\* chunk list allocates a fresh chunk and writes its values at row 0.
C3_FlushResets ==
    /\ ret.op = "Flush" =>
          (chunks = <<>> /\ rowCount = 0 /\ closed = pre.closed)
    /\ (ret.op = "AppendRow" /\ ret.err = nil /\ pre.chunks = <<>>) =>
          /\ Len(chunks) = 1 /\ rowCount = 1
          /\ released[chunks[1].id] = 0
          /\ trace[1].call = "initFromTypes" /\ trace[1].chunk = chunks[1].id
          /\ chunks[1].cells = {<<c, 0>> : c \in 0..(NumCols - 1)}
          /\ \A k \in 2..Len(trace) :
                trace[k].call = "SetValue" /\ trace[k].n = 0
                  /\ trace[k].chunk = chunks[1].id

\* A Flush of several chunks that failed and left an open, empty appender.
C3_Witness ==
    /\ ret.op = "Flush" /\ ret.err # nil /\ Len(pre.chunks) >= 2
    /\ chunks = <<>> /\ rowCount = 0 /\ ~closed

\* C4: every allocated chunk is released exactly once, by the Flush or Close
\* call that follows its allocation, for all buffered chunks and also when a
\* set-size or append call fails partway: a chunk still buffered has not been
\* released, a chunk no longer buffered has been released once.
C4_ReleasedOnce ==
    /\ \A id \in DOMAIN released :
          released[id] = IF id < nextChunk /\ id \notin Ids(chunks) THEN 1 ELSE 0
    /\ Flushed =>
          /\ \A id \in Ids(pre.chunks) : released[id] = 1
          /\ [k \in 1..Len(CallsOf("chunkClose")) |-> CallsOf("chunkClose")[k].chunk] = PreIds

\* A Flush of several chunks whose first set-size call failed: all were released.
C4_Witness ==
    /\ ret.op = "Flush" /\ Len(pre.chunks) >= 2
    /\ trace[1].call = "SetSize" /\ ~trace[1].ok
    /\ \A id \in Ids(pre.chunks) : released[id] = 1

\* C5: a chunk handed to the engine by Flush or Close has had its logical size
\* set to the capacity when it is not the last of the chunk list, and to the
\* row count when it is the last.
C5_HandedSizes ==
    Flushed =>
        \A k \in 1..Len(trace) :
            trace[k].call = "AppendDataChunk" =>
                \E i \in 1..Len(pre.chunks) :
                    /\ pre.chunks[i].id = trace[k].chunk
                    /\ k > 1 /\ trace[k - 1].call = "SetSize" /\ trace[k - 1].ok
                    /\ trace[k - 1].chunk = trace[k].chunk
                    /\ trace[k - 1].n = (IF i = Len(pre.chunks) THEN pre.rowCount ELSE capacity)
                    /\ trace[k].n = trace[k - 1].n

\* A Flush that handed a full chunk and a last chunk that was not full.
C5_Witness ==
    /\ Flushed /\ Len(pre.chunks) >= 2 /\ HandedIds = PreIds
    /\ 0 < pre.rowCount /\ pre.rowCount < capacity

\* The set-size and append calls of the last operation, in order.
LoopCalls == SelectSeq(trace, LAMBDA c : c.call \in {"SetSize", "AppendDataChunk"})

\* Some call with this name failed in the last operation.
StepFailed(name) == \E k \in 1..Len(trace) : trace[k].call = name /\ ~trace[k].ok

\* C6 as stated: a Flush hands every chunk buffered at the call to the engine's
\* append call, once each and in creation order, whatever the set-size and
\* append calls return.
C6_HandsEveryChunk ==
    ret.op = "Flush" => HandedIds = PreIds

\* C6, amended: a Flush hands the buffered chunks to the engine's append call
\* once each and in creation order, and stops at the first set-size or append
\* call that fails: the chunks after it are not handed; when no such call
\* fails, every buffered chunk is handed.
C6_HandsUntilFailure ==
    ret.op = "Flush" =>
        /\ \A i, j \in 1..Len(PreIds) : i < j => PreIds[i] < PreIds[j]
        /\ Len(HandedIds) <= Len(PreIds)
        /\ HandedIds = SubSeq(PreIds, 1, Len(HandedIds))
        /\ \A k \in 1..(Len(LoopCalls) - 1) : LoopCalls[k].ok
        /\ (\A k \in 1..Len(LoopCalls) : LoopCalls[k].ok) => HandedIds = PreIds
        /\ (StepFailed("SetSize") \/ StepFailed("AppendDataChunk")) =>
              /\ ret.err # nil
              /\ Len(CallsOf("SetSize")) =
                    Len(HandedIds) + (IF StepFailed("SetSize") THEN 1 ELSE 0)

\* A Flush of three chunks whose second append call failed: two chunks handed.
C6_Witness ==
    /\ ret.op = "Flush" /\ Len(PreIds) = 3 /\ Len(HandedIds) = 2
    /\ StepFailed("AppendDataChunk")

\* C7: the first Close runs the chunk append, the engine flush, the destroy of
\* every type descriptor and the destroy of the handle whatever the earlier
\* steps returned; it returns nil exactly when no chunk-append, flush or
\* handle-destroy call failed, and otherwise an error holding the error of
\* every step that failed.
C7_CloseRunsAllSteps ==
    FirstClose =>
        /\ [k \in 1..Len(CallsOf("chunkClose")) |-> CallsOf("chunkClose")[k].chunk] = PreIds
        /\ (pre.chunks # <<>> => trace[1].call = "SetSize")
        /\ Len(CallsOf("AppenderFlush")) = 1
        /\ [k \in 1..Len(CallsOf("DestroyLogicalType")) |-> CallsOf("DestroyLogicalType")[k].col]
              = [c \in 1..NumCols |-> c - 1]
        /\ \A c \in 1..NumCols : typesDestroyed[c] = 1
        /\ Len(CallsOf("AppenderDestroy")) = 1
        /\ trace[Len(trace)].call = "AppenderDestroy"
        /\ appender = "destroyed"
        /\ (ret.err = nil) <=>
              ~(StepFailed("SetSize") \/ StepFailed("AppendDataChunk")
                  \/ StepFailed("AppenderFlush") \/ StepFailed("AppenderDestroy"))
        /\ StepFailed("SetSize") => "setSizeError" \in ret.err
        /\ StepFailed("AppendDataChunk") => "appendChunkError" \in ret.err
        /\ StepFailed("AppenderFlush") => "flushError" \in ret.err
        /\ StepFailed("AppenderDestroy") => "errAppenderClose" \in ret.err

\* A first Close whose chunk append failed at the first chunk and whose flush
\* and destroy failed too: all three errors are returned.
C7_Witness ==
    /\ FirstClose /\ Len(pre.chunks) >= 2
    /\ StepFailed("SetSize") /\ StepFailed("AppenderFlush") /\ StepFailed("AppenderDestroy")
    /\ {"setSizeError", "flushError", "errAppenderClose"} \subseteq ret.err

\* The last operation left the chunk list and the row counter as they were and
\* made no native call: no chunk allocated, no cell written.
AppenderUntouched ==
    chunks = pre.chunks /\ rowCount = pre.rowCount /\ trace = <<>>

\* C8 as stated: an AppendRow with a number of values other than the column
\* count returns a column-count error and leaves the appender unchanged.
C8_WrongCountIsColumnCountError ==
    (ret.op = "AppendRow" /\ ret.nargs # NumCols) =>
        ("columnCountError" \in ret.err /\ AppenderUntouched)

\* C8, amended: on an appender that is not closed, an AppendRow with a number
\* of values other than the column count returns a column-count error; on a
\* closed appender it returns the append-after-close error; in both cases the
\* appender is left unchanged.
C8_WrongCountRejected ==
    (ret.op = "AppendRow" /\ ret.nargs # NumCols) =>
        /\ AppenderUntouched
        /\ ~pre.closed => ret.err = {"errAppenderAppendRow", "columnCountError"}
        /\ pre.closed => ret.err = {"errAppenderAppendAfterClose"}

\* An AppendRow with too few values on an open appender holding rows.
C8_Witness ==
    /\ ret.op = "AppendRow" /\ ret.nargs < NumCols /\ ~pre.closed
    /\ "columnCountError" \in ret.err
    /\ Len(chunks) >= 1 /\ rowCount >= 1

\* C9: when a column write fails, AppendRow returns an error and does not
\* increment the row counter; the next successful AppendRow writes at the row
\* index of the partly written row, and the logical sizes a later Flush or
\* Close hands to the engine cover completely written rows only.
C9_FailedRowNotCounted ==
    /\ (ret.op = "AppendRow" /\ "setValueError" \in ret.err) =>
          /\ rowCount = (IF trace[1].call = "initFromTypes" THEN 0 ELSE pre.rowCount)
          /\ rowCount <= pre.rowCount /\ rowCount < capacity
          /\ trace[Len(trace)].call = "SetValue" /\ ~trace[Len(trace)].ok
          /\ trace[Len(trace)].n = rowCount
          /\ trace[Len(trace)].chunk = chunks[Len(chunks)].id
          /\ partial = <<chunks[Len(chunks)].id, rowCount>>
    /\ (ret.op = "AppendRow" /\ ret.err = nil /\ pre.partial # <<>>) =>
          /\ rowCount = pre.partial[2] + 1
          /\ \A k \in 1..Len(trace) :
                /\ trace[k].call = "SetValue" /\ trace[k].ok
                /\ trace[k].chunk = pre.partial[1] /\ trace[k].n = pre.partial[2]
    /\ Flushed =>
          \A k \in 1..Len(trace) : \A i \in 1..Len(pre.chunks) :
              (trace[k].call = "AppendDataChunk" /\ trace[k].chunk = pre.chunks[i].id) =>
                  /\ 0..(trace[k].n - 1) \subseteq CompleteRows(pre.chunks[i])
                  /\ (pre.partial # <<>> /\ pre.partial[1] = trace[k].chunk) =>
                        pre.partial[2] >= trace[k].n

\* A Flush or Close that handed the engine a chunk holding a partly written row
\* above its logical size.
C9_Witness ==
    /\ Flushed /\ pre.partial # <<>> /\ pre.rowCount >= 1
    /\ <<0, pre.rowCount>> \in pre.chunks[Len(pre.chunks)].cells
    /\ \E k \in 1..Len(trace) :
          /\ trace[k].call = "AppendDataChunk" /\ trace[k].ok
          /\ trace[k].chunk = pre.partial[1] /\ trace[k].n = pre.rowCount

\* C10: in every reachable state the row counter is between 0 and the chunk
\* capacity, and every value is written at a row index below the capacity.
C10_RowCountInRange ==
    /\ 0 <= rowCount /\ rowCount <= capacity
    /\ \A k \in 1..Len(trace) :
          trace[k].call = "SetValue" => (0 <= trace[k].n /\ trace[k].n < capacity)
    /\ \A i \in 1..Len(chunks) : \A r \in TouchedRows(chunks[i]) : 0 <= r /\ r < capacity

\* A successful AppendRow that filled the last row of a second chunk.
C10_Witness ==
    /\ ret.op = "AppendRow" /\ ret.err = nil
    /\ rowCount = capacity /\ Len(chunks) >= 2
    /\ trace[Len(trace)].call = "SetValue" /\ trace[Len(trace)].n = capacity - 1

----------------------------------------------------------------------------
\* NewAppender, step by step: the connection checks and the engine's create
\* call, then one loop iteration per column, then the return.

\* Most columns of a table in the model.
MaxTableCols == 4

\* A column's logical type is on the unsupported-type list or it is not.
TypeKinds == {"supported", "unsupported"}

Tables == UNION {[1..n -> TypeKinds] : n \in 0..MaxTableCols}

\* The lookup in unsupportedTypeToStringMap.
IsUnsupported(kind) == kind = "unsupported"

\* The index the error carries for column i (0-based).
ErrIndex(i) == i + 1

\* A faulty loop that checks a column's type before it keeps it in a.types.
AppendTypeDropped(types, c) == types

\* a.types = append(a.types, colType): c is the column the type was acquired for.
AppendType(types, c) == Append(types, c)

\* The destroy counts after destroyTypeSlice(types).
DestroyAcquired(destroyed, types) ==
    LET held == {types[k] : k \in 1..Len(types)}
        d    == destroyTypeSlice([c \in held |-> destroyed[c]])
    IN  [c \in DOMAIN destroyed |-> IF c \in held THEN d[c] ELSE destroyed[c]]

CtorStart(conn, createOk, table) ==
    [pc |-> "start", conn |-> conn, createOk |-> createOk, table |-> table,
     i |-> 0, types |-> <<>>,
     acquired |-> [c \in 1..Len(table) |-> 0],
     destroyed |-> [c \in 1..Len(table) |-> 0],
     handle |-> "none", handleDestroys |-> 0,
     result |-> "pending", err |-> nil, errIndex |-> 0]

\* The type assertion, the closed check and AppenderCreateExt.
NewAppenderCreate ==
    /\ ctor.pc = "start"
    /\ ctor' =
         IF ctor.conn = "invalid"
         THEN [ctor EXCEPT !.pc = "done", !.result = "error",
                           !.err = getError({"errInvalidCon"}, nil)]
         ELSE IF ctor.conn = "closed"
         THEN [ctor EXCEPT !.pc = "done", !.result = "error",
                           !.err = getError({"errClosedCon"}, nil)]
         ELSE IF ~ctor.createOk
         THEN [ctor EXCEPT !.pc = "done", !.result = "error",
                           !.handle = "destroyed", !.handleDestroys = @ + 1,
                           !.err = getError({"errAppenderCreation"}, {"createError"})]
         ELSE [ctor EXCEPT !.pc = "loop", !.handle = "live"]
    /\ UNCHANGED <<appenderVars, conv>>

\* One iteration of the loop over the columns.
NewAppenderColumn ==
    /\ ctor.pc = "loop"
    /\ ctor.i < Len(ctor.table)
    /\ LET c     == ctor.i + 1
           acq   == [ctor.acquired EXCEPT ![c] = @ + 1]
           types == AppendType(ctor.types, c)
       IN  ctor' =
             IF IsUnsupported(ctor.table[c])
             THEN [ctor EXCEPT !.pc = "done", !.result = "error",
                               !.acquired = acq, !.types = types,
                               !.destroyed = DestroyAcquired(@, types),
                               !.handle = "destroyed", !.handleDestroys = @ + 1,
                               !.err = getError({"errAppenderCreation"},
                                                {"unsupportedTypeError"}),
                               !.errIndex = ErrIndex(ctor.i)]
             ELSE [ctor EXCEPT !.acquired = acq, !.types = types, !.i = @ + 1]
    /\ UNCHANGED <<appenderVars, conv>>

\* return a, nil.
NewAppenderReturn ==
    /\ ctor.pc = "loop"
    /\ ctor.i = Len(ctor.table)
    /\ ctor' = [ctor EXCEPT !.pc = "done", !.result = "appender"]
    /\ UNCHANGED <<appenderVars, conv>>

\* The appender variables of a specification that is not about a constructed Appender.
AppenderAtRest ==
    /\ capacity = 0
    /\ closed = FALSE
    /\ chunks = <<>>
    /\ rowCount = 0
    /\ appender = "none"
    /\ typesDestroyed = <<>>
    /\ nextChunk = 1
    /\ released = <<>>
    /\ trace = <<>>
    /\ ret = [op |-> "none", nargs |-> -1, err |-> nil]
    /\ pre = [chunks |-> <<>>, rowCount |-> 0, closed |-> FALSE, partial |-> <<>>]
    /\ okRows = 0
    /\ clean = TRUE
    /\ partial = <<>>

InitNew ==
    /\ AppenderAtRest
    /\ conv = ConvIdle
    /\ \E conn \in {"ok", "invalid", "closed"}, createOk \in BOOLEAN, table \in Tables :
          ctor = CtorStart(conn, createOk, table)

NextNew == NewAppenderCreate \/ NewAppenderColumn \/ NewAppenderReturn

SpecNew == InitNew /\ [][NextNew]_vars

\* The 1-based position of the first unsupported column of a table, 0 when none.
FirstUnsupported(table) ==
    IF \E c \in 1..Len(table) : table[c] = "unsupported"
    THEN CHOOSE c \in 1..Len(table) :
             table[c] = "unsupported" /\ \A b \in 1..(c - 1) : table[b] # "unsupported"
    ELSE 0

\* C11: NewAppender on a table whose first unsupported column is column i
\* (0-based) returns no Appender and an error carrying i+1, after destroying
\* once each type descriptor acquired for columns 0..i and the native handle;
\* no descriptor of a later column was acquired, so nothing stays allocated.
C11_UnsupportedColumnRejected ==
    (ctor.pc = "done" /\ ctor.conn = "ok" /\ ctor.createOk
        /\ FirstUnsupported(ctor.table) # 0) =>
        LET k == FirstUnsupported(ctor.table)
        IN  /\ ctor.result = "error"
            /\ "unsupportedTypeError" \in ctor.err
            /\ ctor.errIndex = (k - 1) + 1
            /\ \A c \in 1..Len(ctor.table) :
                  /\ ctor.acquired[c] = (IF c <= k THEN 1 ELSE 0)
                  /\ ctor.destroyed[c] = ctor.acquired[c]
            /\ ctor.handle = "destroyed" /\ ctor.handleDestroys = 1

\* A table whose third column is the first unsupported one, with another
\* unsupported column after it.
C11_Witness ==
    /\ ctor.pc = "done" /\ ctor.result = "error" /\ ctor.errIndex = 3
    /\ Len(ctor.table) = 4 /\ ctor.table[4] = "unsupported"
    /\ ctor.destroyed = <<1, 1, 1, 0>>

\* C12: over the lifetime of an Appender each column type descriptor is
\* destroyed at most once, exactly once when Close has been called, and never
\* by AppendRow or Flush.
C12_TypesDestroyedOnce ==
    /\ \A c \in DOMAIN typesDestroyed : typesDestroyed[c] = (IF closed THEN 1 ELSE 0)
    /\ closed <=> (ret.op = "Close" \/ pre.closed)
    /\ ret.op \in {"AppendRow", "Flush"} => Len(CallsOf("DestroyLogicalType")) = 0
    /\ (ret.op = "Close" /\ pre.closed) => Len(CallsOf("DestroyLogicalType")) = 0
    /\ FirstClose => Len(CallsOf("DestroyLogicalType")) = NumCols

\* A repeated Close: the descriptors are still destroyed once.
C12_Witness ==
    /\ ret.op = "Close" /\ pre.closed
    /\ \A c \in DOMAIN typesDestroyed : typesDestroyed[c] = 1

----------------------------------------------------------------------------
\* The value conversions of types.go, on machine words scaled down from 64
\* bits: a byte has ByteBits bits and a word has WordBytes bytes, so that a
\* HUGEINT has 2 * WordBits bits and a UUID has 2 * WordBytes bytes.

ByteBits == 1

WordBytes == 2

WordBits == ByteBits * WordBytes

uuidLength == 2 * WordBytes

\* 1 << 64 and 1 << 63.
Word == 2 ^ WordBits

SignBit == 2 ^ (WordBits - 1)

Byte == 2 ^ ByteBits

NoValue == [none |-> TRUE]

\* The value of the call in progress is handed back.
ConvReturn ==
    /\ conv # ConvIdle
    /\ conv' = ConvIdle
    /\ UNCHANGED <<appenderVars, ctor>>

Abs(x) == IF x < 0 THEN -x ELSE x

\* big.Int.QuoRem: T-division, the quotient truncated toward zero.
QuoRem(i, d) ==
    LET q == IF i < 0 THEN -(Abs(i) \div d) ELSE i \div d
    IN  [q |-> q, r |-> i - q * d]

\* big.Int.DivMod: Euclidean division, 0 <= r < d for the positive d used here.
DivMod(i, d) == [q |-> i \div d, r |-> i % d]

\* big.Int.IsInt64.
IsInt64(q) == -SignBit <= q /\ q <= SignBit - 1

\* big.Int.Uint64: the low word of the magnitude for a value that does not fit.
Uint64(r) == Abs(r) % Word

\* int64(x) and uint64(x): the same bits read as signed or unsigned.
ToInt64(u) == IF u >= SignBit THEN u - Word ELSE u

ToUint64(x) == x % Word

NewHugeInt(lower, upper) == [lower |-> lower, upper |-> upper]

hugeIntFromNative(i) ==
    LET qr == DivMod(i, Word)
    IN  IF ~IsInt64(qr.q)
        THEN [value |-> NoValue, err |-> {"tooBigForHugeInt"}]
        ELSE [value |-> NewHugeInt(Uint64(qr.r), qr.q), err |-> nil]

\* A faulty hugeIntToNative that adds the lower word as a signed number.
hugeIntToNativeSignedLower(hugeInt) == hugeInt.upper * Word + ToInt64(hugeInt.lower)

\* upper << 64, plus the lower word as an unsigned number.
hugeIntToNative(hugeInt) == hugeInt.upper * Word + hugeInt.lower

\* The HUGEINT values: every pair of an unsigned lower and a signed upper word.
HugeInts == {NewHugeInt(l, u) : l \in 0..(Word - 1), u \in (-SignBit)..(SignBit - 1)}

MinHugeInt == -(SignBit * Word)

MaxHugeInt == SignBit * Word - 1

\* The integers handed to hugeIntFromNative: the HUGEINT range and as many
\* integers again on each side of it.
NativeInputs == (2 * MinHugeInt)..(2 * MaxHugeInt + 1)

\* binary.BigEndian.PutUint64 and binary.BigEndian.Uint64.
PutUint64(x) == [k \in 1..WordBytes |-> (x \div (Byte ^ (WordBytes - k))) % Byte]

RECURSIVE BigEndianSum(_, _)
BigEndianSum(b, n) == IF n = 0 THEN 0 ELSE BigEndianSum(b, n - 1) * Byte + b[n]

BigEndianUint64(b) == BigEndianSum(b, WordBytes)

\* x ^ (1 << 63) on an unsigned word.
FlipSignBit(u) == IF u >= SignBit THEN u - SignBit ELSE u + SignBit

UUIDs == [1..uuidLength -> 0..(Byte - 1)]

\* A faulty hugeIntToUUID that writes the upper word as it is.
hugeIntToUUIDNoFlip(hugeInt) ==
    PutUint64(ToUint64(hugeInt.upper)) \o PutUint64(hugeInt.lower)

hugeIntToUUID(hugeInt) ==
    PutUint64(FlipSignBit(ToUint64(hugeInt.upper))) \o PutUint64(hugeInt.lower)

\* A faulty uuidToHugeInt that reads the upper word as it is.
uuidToHugeIntNoFlip(uuid) ==
    LET lower == BigEndianUint64(SubSeq(uuid, WordBytes + 1, uuidLength))
        upper == BigEndianUint64(SubSeq(uuid, 1, WordBytes))
    IN  NewHugeInt(lower, ToInt64(upper))

uuidToHugeInt(uuid) ==
    LET lower == BigEndianUint64(SubSeq(uuid, WordBytes + 1, uuidLength))
        upper == BigEndianUint64(SubSeq(uuid, 1, WordBytes))
    IN  NewHugeInt(lower, ToInt64(FlipSignBit(upper)))

\* A big integer is encoded and the result, if any, decoded again.
HugeIntFromNative ==
    /\ conv = ConvIdle
    /\ \E v \in NativeInputs :
          LET res == hugeIntFromNative(v)
          IN  conv' = [f |-> "hugeIntFromNative", v |-> v, res |-> res,
                       back |-> IF res.err = nil THEN hugeIntToNative(res.value)
                                ELSE NoValue]
    /\ UNCHANGED <<appenderVars, ctor>>

\* A HUGEINT is decoded and the big integer encoded again.
HugeIntToNative ==
    /\ conv = ConvIdle
    /\ \E h \in HugeInts :
          conv' = [f |-> "hugeIntToNative", h |-> h, v |-> hugeIntToNative(h),
                   back |-> hugeIntFromNative(hugeIntToNative(h))]
    /\ UNCHANGED <<appenderVars, ctor>>

\* A UUID is encoded as a HUGEINT and decoded again.
UuidToHugeInt ==
    /\ conv = ConvIdle
    /\ \E u \in UUIDs :
          conv' = [f |-> "uuidToHugeInt", u |-> u, h |-> uuidToHugeInt(u),
                   back |-> hugeIntToUUID(uuidToHugeInt(u))]
    /\ UNCHANGED <<appenderVars, ctor>>

\* A HUGEINT is decoded as a UUID and encoded again.
HugeIntToUuid ==
    /\ conv = ConvIdle
    /\ \E h \in HugeInts :
          conv' = [f |-> "hugeIntToUUID", h |-> h, u |-> hugeIntToUUID(h),
                   back |-> uuidToHugeInt(hugeIntToUUID(h))]
    /\ UNCHANGED <<appenderVars, ctor>>

InitTypes ==
    /\ AppenderAtRest
    /\ ctor = CtorIdle
    /\ conv = ConvIdle

\* C13: hugeIntFromNative succeeds exactly for the signed two-word integers,
\* returning an unsigned lower word and a signed upper word with
\* v = upper * 2^WordBits + lower, also for negative v; for every other
\* integer it returns an error and no value.
C13_FromNativeRange ==
    conv.f = "hugeIntFromNative" =>
        IF MinHugeInt <= conv.v /\ conv.v <= MaxHugeInt
        THEN /\ conv.res.err = nil
             /\ 0 <= conv.res.value.lower /\ conv.res.value.lower < Word
             /\ -SignBit <= conv.res.value.upper /\ conv.res.value.upper < SignBit
             /\ conv.v = conv.res.value.upper * Word + conv.res.value.lower
        ELSE conv.res.err # nil /\ conv.res.value = NoValue

\* A negative integer with a non-zero lower word was encoded.
C13_Witness ==
    /\ conv.f = "hugeIntFromNative" /\ conv.v < 0 /\ conv.res.err = nil
    /\ conv.res.value.upper < -1 /\ conv.res.value.lower > 0

\* C14: hugeIntToNative(hugeIntFromNative(v)) = v for every v of the HUGEINT
\* range, both bounds included, and hugeIntFromNative(hugeIntToNative(h))
\* returns h for every pair h.
C14_HugeIntRoundTrip ==
    /\ (conv.f = "hugeIntFromNative" /\ MinHugeInt <= conv.v /\ conv.v <= MaxHugeInt)
          => conv.back = conv.v
    /\ conv.f = "hugeIntToNative"
          => (conv.back.err = nil /\ conv.back.value = conv.h)

\* The smallest HUGEINT made the round trip.
C14_Witness ==
    conv.f = "hugeIntFromNative" /\ conv.v = MinHugeInt /\ conv.back = MinHugeInt

\* C15: hugeIntToUUID(uuidToHugeInt(u)) = u for every UUID u and
\* uuidToHugeInt(hugeIntToUUID(h)) = h for every HUGEINT h.
C15_UuidRoundTrip ==
    /\ conv.f = "uuidToHugeInt" => (conv.back = conv.u /\ conv.h \in HugeInts)
    /\ conv.f = "hugeIntToUUID" => (conv.back = conv.h /\ conv.u \in UUIDs)

\* A UUID with the top bit set made the round trip through a non-negative HUGEINT.
C15_Witness ==
    /\ conv.f = "uuidToHugeInt" /\ conv.u[1] >= Byte \div 2
    /\ conv.h.upper >= 0 /\ conv.h.lower > 0 /\ conv.back = conv.u

\* Byte-wise lexicographic order on UUIDs.
LexLess(a, b) ==
    \E k \in 1..uuidLength : a[k] < b[k] /\ \A j \in 1..(k - 1) : a[j] = b[j]

\* The order of signed two-word integers: the signed upper word, then the
\* unsigned lower word.
HugeIntLess(x, y) == x.upper < y.upper \/ (x.upper = y.upper /\ x.lower < y.lower)

\* Every UUID b with uuidToHugeInt(b).
UuidGraph == {<<b, uuidToHugeInt(b)>> : b \in UUIDs}

\* C16: for every two UUIDs a and b, a is lexicographically smaller than b
\* exactly when uuidToHugeInt(a) is smaller than uuidToHugeInt(b) as signed
\* integers. Here a is the UUID just encoded and b is any UUID.
C16_UuidOrder ==
    conv.f = "uuidToHugeInt" =>
        \A p \in UuidGraph : LexLess(conv.u, p[1]) <=> HugeIntLess(conv.h, p[2])

\* A UUID that has smaller and larger UUIDs on either side of the sign bit
\* was encoded.
C16_Witness ==
    /\ conv.f = "uuidToHugeInt" /\ conv.h.upper = -1
    /\ \E p \in UuidGraph : LexLess(conv.u, p[1]) /\ p[2].upper >= 0
    /\ \E p \in UuidGraph : LexLess(p[1], conv.u) /\ p[2].upper = conv.h.upper

----------------------------------------------------------------------------
\* Decimal.String. A string is a sequence of one-character strings.

\* The unscaled values have at most MaxDigits digits, the scales go up to MaxScale.
MaxDigits == 3

MaxScale == 4

DigitChars == <<"0", "1", "2", "3", "4", "5", "6", "7", "8", "9">>

\* big.Int.String of a non-negative integer.
RECURSIVE Digits(_)
Digits(n) ==
    IF n < 10 THEN <<DigitChars[n + 1]>>
    ELSE Append(Digits(n \div 10), DigitChars[(n % 10) + 1])

\* big.Int.String.
BigIntString(v) == IF v < 0 THEN <<"-">> \o Digits(-v) ELSE Digits(v)

\* strings.TrimRightFunc(s, r == '0').
RECURSIVE TrimRightZeros(_)
TrimRightZeros(str) ==
    IF Len(str) > 0 /\ str[Len(str)] = "0"
    THEN TrimRightZeros(SubSeq(str, 1, Len(str) - 1))
    ELSE str

\* strings.Repeat.
Repeat(c, n) == [k \in 1..n |-> c]

\* A faulty integer branch that does not put the trimmed zeros back.
IntegerZerosDropped(scale) == <<>>

\* strings.Repeat("0", -1*scale): the zeros of an integer result.
IntegerZeros(scale) == Repeat("0", -1 * scale)

DecimalString(value, dscale) ==
    IF value = 0 THEN <<"0">>
    ELSE LET signStr     == IF value < 0 THEN <<"-">> ELSE <<>>
             scaleless   == IF value < 0 THEN Tail(BigIntString(value))
                            ELSE BigIntString(value)
             zeroTrimmed == TrimRightZeros(scaleless)
             scale       == dscale - (Len(scaleless) - Len(zeroTrimmed))
             n           == Len(zeroTrimmed)
         IN  IF scale <= 0
             THEN signStr \o zeroTrimmed \o IntegerZeros(scale)
             ELSE IF n <= scale
             THEN signStr \o <<"0", ".">> \o Repeat("0", scale - n) \o zeroTrimmed
             ELSE signStr \o SubSeq(zeroTrimmed, 1, n - scale) \o <<".">>
                          \o SubSeq(zeroTrimmed, n - scale + 1, n)

\* The decimals the specification names as examples.
DecimalExamples ==
    {<<-705399, 8>>, <<1234567890, 1>>, <<1234500000, 1>>, <<0, 0>>}

DecimalInputs ==
    ((-(10 ^ MaxDigits - 1)..(10 ^ MaxDigits - 1)) \X (0..MaxScale)) \cup DecimalExamples

DecimalToString ==
    /\ conv = ConvIdle
    /\ \E d \in DecimalInputs :
          conv' = [f |-> "Decimal.String", value |-> d[1], scale |-> d[2],
                   str |-> DecimalString(d[1], d[2])]
    /\ UNCHANGED <<appenderVars, ctor>>

\* The s digits of a fraction f / 10^s, most significant first.
RECURSIVE FractionDigits(_, _)
FractionDigits(f, s) ==
    IF s = 0 THEN <<>>
    ELSE Append(FractionDigits(f \div 10, s - 1), DigitChars[(f % 10) + 1])

\* The shortest decimal numeral of v / 10^s.
Numeral(v, s) ==
    LET whole    == Abs(v) \div (10 ^ s)
        fraction == TrimRightZeros(FractionDigits(Abs(v) % (10 ^ s), s))
    IN  (IF v < 0 THEN <<"-">> ELSE <<>>)
        \o Digits(whole)
        \o (IF Len(fraction) = 0 THEN <<>> ELSE <<".">> \o fraction)

\* C17: Decimal.String returns "0" for the value 0 and otherwise the shortest
\* decimal numeral of v / 10^s: an optional '-', the integer digits ("0" when
\* |v| < 10^s), and a '.' with fractional digits only when the fraction is
\* non-zero, without trailing fractional zeros and without dropping an integer
\* digit; the three named examples give the named strings.
C17_DecimalString ==
    conv.f = "Decimal.String" =>
        /\ conv.value = 0 => conv.str = <<"0">>
        /\ conv.str = Numeral(conv.value, conv.scale)
        /\ (conv.value = -705399 /\ conv.scale = 8) =>
              conv.str = <<"-", "0", ".", "0", "0", "7", "0", "5", "3", "9", "9">>
        /\ (conv.value = 1234567890 /\ conv.scale = 1) =>
              conv.str = <<"1", "2", "3", "4", "5", "6", "7", "8", "9">>
        /\ (conv.value = 1234500000 /\ conv.scale = 1) =>
              conv.str = <<"1", "2", "3", "4", "5", "0", "0", "0", "0">>

\* An integer result whose trimmed zeros were put back: 1234500000 with scale 1.
C17_Witness ==
    /\ conv.f = "Decimal.String" /\ conv.value = 1234500000 /\ conv.scale = 1
    /\ Len(conv.str) = 9

----------------------------------------------------------------------------
\* vector.getUnion: the decode of one row of a UNION vector.

\* Most members of a union in the model.
MaxMembers == 3

\* The tag is an int8; the model reads tags from below -1 to above the last member.
TagValues == (-2)..(MaxMembers + 1)

\* len(vec.childVectors): the tag vector at index 0, then one vector per member.
ChildVectorCount(memberCount) == memberCount + 1

\* A Go slice index expression panics outside 0 <= i < len.
InRange(i, len) == 0 <= i /\ i < len

\* The function has no error result: it returns a Union or the indexing panics.
\* read is the set of child vectors whose getFn ran for the row.
getUnion(tagIdx, memberCount) ==
    LET childVecIdx == tagIdx + 1
    IN  IF ~InRange(childVecIdx, ChildVectorCount(memberCount))
        THEN [outcome |-> "panic", member |-> -1, read |-> {}]
        ELSE IF ~InRange(tagIdx, memberCount)
        THEN [outcome |-> "panic", member |-> -1, read |-> {childVecIdx}]
        ELSE [outcome |-> "union", member |-> tagIdx, read |-> {childVecIdx}]

GetUnion ==
    /\ conv = ConvIdle
    /\ \E memberCount \in 1..MaxMembers, tagIdx \in TagValues :
          conv' = [f |-> "getUnion", tagIdx |-> tagIdx, memberCount |-> memberCount,
                   res |-> getUnion(tagIdx, memberCount)]
    /\ UNCHANGED <<appenderVars, ctor>>

\* C18: union decode of a row whose tag index is outside 0 <= tag < memberCount
\* fails with a decode error, returns no union value and reads no child vector
\* for that row.
C18_OutOfRangeTagIsDecodeError ==
    (conv.f = "getUnion" /\ ~InRange(conv.tagIdx, conv.memberCount)) =>
        /\ conv.res.outcome = "decodeError"
        /\ conv.res.read = {}

----------------------------------------------------------------------------
\* Timestamps: getTSTicks (encode) and vector.getTS (decode).
\*
\* An instant is kept as a day number since 1970-01-01, a second of that day
\* and a nanosecond of that second, all counted forward (the second and the
\* nanosecond are never negative), as time.Time keeps seconds and nanoseconds.
\* A tick count is kept the same way, as [day, sec, sub] with sub counting the
\* ticks within the second: the count itself, (day * 86400 + sec) * U + sub for
\* U ticks per second, does not fit the integers of the model checker.

SecondsPerDay == 24 * 60 * 60

NanosPerSecond == 10 ^ 9

TimestampTypes ==
    {"TYPE_TIMESTAMP", "TYPE_TIMESTAMP_TZ", "TYPE_TIMESTAMP_S",
     "TYPE_TIMESTAMP_MS", "TYPE_TIMESTAMP_NS"}

\* Ticks per second of a timestamp type.
TicksPerSecond(t) ==
    CASE t = "TYPE_TIMESTAMP_S"  -> 1
      [] t = "TYPE_TIMESTAMP_MS" -> 10 ^ 3
      [] t = "TYPE_TIMESTAMP_NS" -> 10 ^ 9
      [] OTHER                   -> 10 ^ 6

\* The day number of a date of the proleptic Gregorian calendar (time.Date).
DaysFromCivil(y, m, d) ==
    LET yy  == IF m <= 2 THEN y - 1 ELSE y
        era == yy \div 400
        yoe == yy - era * 400
        mp  == IF m > 2 THEN m - 3 ELSE m + 9
        doy == (153 * mp + 2) \div 5 + d - 1
        doe == yoe * 365 + yoe \div 4 - yoe \div 100 + doy
    IN  era * 146097 + doe - 719468

\* The year of a day number (time.Time.Year).
YearOfDay(day) ==
    LET z   == day + 719468
        era == z \div 146097
        doe == z - era * 146097
        yoe == (doe - doe \div 1460 + doe \div 36524 - doe \div 146096) \div 365
        doy == doe - (365 * yoe + yoe \div 4 - yoe \div 100)
        mp  == (5 * doy + 2) \div 153
        m   == IF mp < 10 THEN mp + 3 ELSE mp - 9
    IN  yoe + era * 400 + (IF m <= 2 THEN 1 ELSE 0)

\* time.Date(y, m, d, 0, 0, clock, nsec, zone): the wall clock of a zone that
\* is offset seconds east of UTC.
Date(y, m, d, clock, nsec, offset) ==
    LET local == clock - offset
    IN  [day    |-> DaysFromCivil(y, m, d) + local \div SecondsPerDay,
         sec    |-> local % SecondsPerDay,
         nsec   |-> nsec,
         offset |-> offset]

\* time.Time.UTC: the same instant, read in UTC.
UTC(ti) == [ti EXCEPT !.offset = 0]

\* time.Time.Year: the year of the wall clock of the time's zone.
Year(ti) == YearOfDay(ti.day + (ti.sec + ti.offset) \div SecondsPerDay)

castToTime(val) == UTC(val)

\* The largest and the smallest int64 and 2^64, as tick counts of U ticks per
\* second. For U = 1 and U = 1000 they lie beyond every day number of the model.
MaxInt64(U) ==
    IF U = 10 ^ 9 THEN [day |-> 106751, sec |-> 85636, sub |-> 854775807]
    ELSE [day |-> 106751991, sec |-> 14454, sub |-> 775807]

MinInt64(U) ==
    IF U = 10 ^ 9 THEN [day |-> -106752, sec |-> 763, sub |-> 145224192]
    ELSE [day |-> -106751992, sec |-> 71945, sub |-> 224192]

TwoTo64(U) ==
    IF U = 10 ^ 9 THEN [day |-> 213503, sec |-> 84873, sub |-> 709551616]
    ELSE [day |-> 213503982, sec |-> 28909, sub |-> 551616]

TicksLess(x, y) ==
    \/ x.day < y.day
    \/ x.day = y.day /\ x.sec < y.sec
    \/ x.day = y.day /\ x.sec = y.sec /\ x.sub < y.sub

\* The tick count x is an int64.
FitsInt64(x, U) ==
    U < 10 ^ 6 \/ (~TicksLess(MaxInt64(U), x) /\ ~TicksLess(x, MinInt64(U)))

\* x + sign * y on tick counts, carrying between sub, sec and day.
TicksPlus(x, sign, y, U) ==
    LET sub == x.sub + sign * y.sub
        sec == x.sec + sign * y.sec + sub \div U
    IN  [day |-> x.day + sign * y.day + sec \div SecondsPerDay,
         sec |-> sec % SecondsPerDay,
         sub |-> sub % U]

\* int64 arithmetic wraps.
WrapInt64(x, U) ==
    IF FitsInt64(x, U) THEN x
    ELSE IF TicksLess(MaxInt64(U), x) THEN TicksPlus(x, -1, TwoTo64(U), U)
    ELSE TicksPlus(x, 1, TwoTo64(U), U)

\* The exact count of the ticks of U per second up to ti, rounded down.
TicksOf(ti, U) == [day |-> ti.day, sec |-> ti.sec, sub |-> ti.nsec \div (NanosPerSecond \div U)]

\* time.Time.Unix, UnixMilli, UnixMicro and UnixNano.
Unix(ti) == WrapInt64(TicksOf(ti, 1), 1)

UnixMilli(ti) == WrapInt64(TicksOf(ti, 10 ^ 3), 10 ^ 3)

UnixMicro(ti) == WrapInt64(TicksOf(ti, 10 ^ 6), 10 ^ 6)

UnixNano(ti) == WrapInt64(TicksOf(ti, 10 ^ 9), 10 ^ 9)

NoTicks == [day |-> 0, sec |-> 0, sub |-> 0]

NoError == [kind |-> "none"]

conversionError(year, lower, upper) ==
    [kind |-> "conversionError", year |-> year, lower |-> lower, upper |-> upper]

getTSTicks(t, val) ==
    LET ti   == castToTime(val)
        year == Year(ti)
    IN  IF t = "TYPE_TIMESTAMP_S" THEN [ticks |-> Unix(ti), err |-> NoError]
        ELSE IF t = "TYPE_TIMESTAMP_MS" THEN [ticks |-> UnixMilli(ti), err |-> NoError]
        ELSE IF t = "TYPE_TIMESTAMP" \/ t = "TYPE_TIMESTAMP_TZ"
        THEN IF year < -290307 \/ year > 294246
             THEN [ticks |-> NoTicks, err |-> conversionError(year, -290307, 294246)]
             ELSE [ticks |-> UnixMicro(ti), err |-> NoError]
        ELSE IF year < 1678 \/ year > 2262
             THEN [ticks |-> NoTicks, err |-> conversionError(year, -290307, 294246)]
             ELSE [ticks |-> UnixNano(ti), err |-> NoError]

\* vector.getTS: time.UnixMicro(x).UTC(), time.Unix(x, 0).UTC(),
\* time.UnixMilli(x).UTC() and time.Unix(0, x).UTC().
getTS(t, x) ==
    [day |-> x.day, sec |-> x.sec,
     nsec |-> x.sub * (NanosPerSecond \div TicksPerSecond(t)), offset |-> 0]

\* The times handed to the encoder: the first and last years of either range
\* and their neighbours, the days next to the last int64 nanosecond
\* (2262-04-11T23:47:16.854775807Z), and zones on either side of UTC.
SampleYears == {-290308, -290307, 1677, 1678, 1969, 1970, 2022, 2262, 2263, 294246, 294247}

SampleDays == {<<1, 1>>, <<4, 11>>, <<4, 12>>, <<12, 12>>, <<12, 31>>}

SampleClocks == {0, 11 * 3600 + 35 * 60 + 43, 23 * 3600 + 47 * 60 + 16, SecondsPerDay - 1}

SampleNanos == {0, 1, 567800000, 854775807, 854775808, 999999999}

SampleOffsets == {0, 14 * 3600, -12 * 3600}

\* A time is encoded and the ticks, if any, decoded again.
GetTSTicks ==
    /\ conv = ConvIdle
    /\ \E t \in TimestampTypes, y \in SampleYears, md \in SampleDays,
          clock \in SampleClocks, nsec \in SampleNanos, offset \in SampleOffsets :
          LET val == Date(y, md[1], md[2], clock, nsec, offset)
              res == getTSTicks(t, val)
          IN  conv' = [f |-> "getTSTicks", t |-> t, val |-> val, res |-> res,
                       back |-> IF res.err = NoError THEN getTS(t, res.ticks)
                                ELSE NoValue]
    /\ UNCHANGED <<appenderVars, ctor>>

----------------------------------------------------------------------------
\* Dates: getMappedDate (encode) and getDate (decode).

\* The month and the day of the month of a day number (the engine's FromDate).
MonthDayOfDay(day) ==
    LET z   == day + 719468
        era == z \div 146097
        doe == z - era * 146097
        yoe == (doe - doe \div 1460 + doe \div 36524 - doe \div 146096) \div 365
        doy == doe - (365 * yoe + yoe \div 4 - yoe \div 100)
        mp  == (5 * doy + 2) \div 153
    IN  <<IF mp < 10 THEN mp + 3 ELSE mp - 9, doy - (153 * mp + 2) \div 5 + 1>>

\* x / secondsPerDay for a count x of seconds: Go's integer division rounds
\* toward zero, so a negative count that is no whole number of days gives the
\* day above the one it lies in.
QuoSecondsPerDay(x) == IF x.day < 0 /\ x.sec # 0 THEN x.day + 1 ELSE x.day

\* The day count handed to mapping.NewDate. Every day number of the model is
\* an int32, so the conversion int32(...) keeps the quotient.
getMappedDate(val) == QuoSecondsPerDay(Unix(castToTime(val)))

\* getDate: midnight UTC of the calendar date of the day count.
getDate(date) ==
    LET md == MonthDayOfDay(date)
    IN  Date(YearOfDay(date), md[1], md[2], 0, 0, 0)

\* A time is encoded as a date and the date decoded again.
GetMappedDate ==
    /\ conv = ConvIdle
    /\ \E y \in SampleYears, md \in SampleDays, clock \in SampleClocks,
          nsec \in SampleNanos, offset \in SampleOffsets :
          LET val == Date(y, md[1], md[2], clock, nsec, offset)
          IN  conv' = [f |-> "getMappedDate", val |-> val, date |-> getMappedDate(val),
                       back |-> getDate(getMappedDate(val))]
    /\ UNCHANGED <<appenderVars, ctor>>

----------------------------------------------------------------------------
\* Intervals: Interval.getMappedInterval (encode) and getInterval (decode).

\* The values a field takes in the model; micros is an int64, the others int32.
IntervalFieldValues == {-1, 0, 1, 6, 30}

Intervals == [Months : IntervalFieldValues, Days : IntervalFieldValues,
              Micros : IntervalFieldValues]

\* mapping.NewInterval and mapping.IntervalMembers: the engine's interval is
\* made from, and taken apart into, months, days and micros, in this order.
NewInterval(months, days, micros) == <<months, days, micros>>

IntervalMembers(interval) == interval

\* A faulty encode that hands days and months over in the struct's field order.
getMappedIntervalFieldOrder(i) == NewInterval(i.Days, i.Months, i.Micros)

getMappedInterval(i) == NewInterval(i.Months, i.Days, i.Micros)

getInterval(interval) ==
    LET members == IntervalMembers(interval)
        months  == members[1]
        days    == members[2]
        micros  == members[3]
    IN  [Days |-> days, Months |-> months, Micros |-> micros]

\* An interval is encoded and decoded again.
GetMappedInterval ==
    /\ conv = ConvIdle
    /\ \E i \in Intervals :
          conv' = [f |-> "getMappedInterval", val |-> i, mapped |-> getMappedInterval(i),
                   back |-> getInterval(getMappedInterval(i))]
    /\ UNCHANGED <<appenderVars, ctor>>

----------------------------------------------------------------------------
\* vector.getMap: the decode of one row of a MAP vector.

\* Most key/value structs in the list of a row.
MaxMapEntries == 3

MapKeys == {"k1", "k2"}

MapValues == {"v1", "v2"}

\* vec.getList(rowIdx): the list of the row, each item a struct with the
\* fields "key" and "value".
MapLists ==
    UNION {[1..n -> [key : MapKeys, value : MapValues]] : n \in 0..MaxMapEntries}

\* m[key] = val on a Go map: a key that is present gets the new value.
MapAssign(m, key, val) ==
    [k \in DOMAIN m \cup {key} |-> IF k = key THEN val ELSE m[k]]

\* The loop of getMap over the first n items of the list, from m := Map{}.
RECURSIVE getMapLoop(_, _)
getMapLoop(list, n) ==
    IF n = 0 THEN <<>>
    ELSE MapAssign(getMapLoop(list, n - 1), list[n].key, list[n].value)

getMap(list) == getMapLoop(list, Len(list))

GetMap ==
    /\ conv = ConvIdle
    /\ \E list \in MapLists :
          conv' = [f |-> "getMap", list |-> list, m |-> getMap(list)]
    /\ UNCHANGED <<appenderVars, ctor>>

----------------------------------------------------------------------------
\* getMappedStructValue: a STRUCT value built from a host value.

FieldNames == {"a", "b", "c"}

\* The declared fields of a struct type, in declared order: no name twice.
StructTypes ==
    {lt \in UNION {[1..n -> FieldNames] : n \in 0..Cardinality(FieldNames)} :
        \A i, j \in 1..Len(lt) : i # j => lt[i] # lt[j]}

\* A key of the host value is a field name or a name no struct type declares;
\* its value can be encoded ("good") or not ("bad").
HostKeys == FieldNames \cup {"x"}

\* The host values: map[string]any values and one value of another type.
NotAMap == [notAMap |-> TRUE]

HostValues ==
    UNION {[keys -> ValueKinds] : keys \in SUBSET HostKeys} \cup {NotAMap}

\* createValue(childType, v) for the field childName.
createValue(childName, v) ==
    IF v = "bad"
    THEN [value |-> NoValue, err |-> {"createValueError"}]
    ELSE [value |-> [field |-> childName, null |-> FALSE], err |-> nil]

CreateNullValue == [field |-> "none", null |-> TRUE]

\* A faulty loop that appends nothing for a field the host value lacks.
AppendAbsentSkipped(values) == values

\* values = append(values, mapping.CreateNullValue()).
AppendAbsent(values) == Append(values, CreateNullValue)

\* The loop over the first n declared fields; it returns at the first error.
RECURSIVE structLoop(_, _, _)
structLoop(lt, vMap, n) ==
    IF n = 0 THEN [values |-> <<>>, err |-> nil]
    ELSE LET before    == structLoop(lt, vMap, n - 1)
             childName == lt[n]
         IN  IF before.err # nil THEN before
             ELSE IF childName \in DOMAIN vMap
             THEN LET vv == createValue(childName, vMap[childName])
                  IN  IF vv.err # nil
                      THEN [values |-> before.values, err |-> {"couldNotCreateValue"}]
                      ELSE [values |-> Append(before.values, vv.value), err |-> nil]
             ELSE [values |-> AppendAbsent(before.values), err |-> nil]

getMappedStructValue(lt, val) ==
    IF val = NotAMap
    THEN [value |-> NoValue, err |-> {"couldNotCast"}]
    ELSE LET loop == structLoop(lt, val, Len(lt))
         IN  IF loop.err # nil
             THEN [value |-> NoValue, err |-> loop.err]
             ELSE [value |-> loop.values, err |-> nil]

GetMappedStructValue ==
    /\ conv = ConvIdle
    /\ \E lt \in StructTypes, val \in HostValues :
          conv' = [f |-> "getMappedStructValue", lt |-> lt, val |-> val,
                   res |-> getMappedStructValue(lt, val)]
    /\ UNCHANGED <<appenderVars, ctor>>

NextTypes ==
    \/ HugeIntFromNative
    \/ HugeIntToNative
    \/ UuidToHugeInt
    \/ HugeIntToUuid
    \/ DecimalToString
    \/ GetUnion
    \/ GetTSTicks
    \/ GetMappedDate
    \/ GetMappedInterval
    \/ GetMap
    \/ GetMappedStructValue
    \/ ConvReturn

SpecTypes == InitTypes /\ [][NextTypes]_vars

\* The years a timestamp type takes, by the precision it encodes.
YearBounds(t) ==
    IF t = "TYPE_TIMESTAMP_NS" THEN <<1678, 2262>> ELSE <<-290307, 294246>>

\* C19: timestamp encode accepts a time exactly when its UTC year is in
\* -290307..294246 for TIMESTAMP and TIMESTAMP_TZ and in 1678..2262 for
\* TIMESTAMP_NS, and for every rejected time it returns a conversion error
\* that reports the offending year with the lower and upper year bound of the
\* precision being encoded (1678 and 2262 for TIMESTAMP_NS).
C19_YearCheckReportsBounds ==
    (conv.f = "getTSTicks"
        /\ conv.t \in {"TYPE_TIMESTAMP", "TYPE_TIMESTAMP_TZ", "TYPE_TIMESTAMP_NS"}) =>
        LET year == YearOfDay(conv.val.day)
            b    == YearBounds(conv.t)
        IN  /\ conv.res.err = NoError <=> (b[1] <= year /\ year <= b[2])
            /\ conv.res.err # NoError =>
                  conv.res.err = conversionError(year, b[1], b[2])

\* t with everything below one tick of the type removed, read in UTC.
Truncated(ti, t) ==
    LET unit == NanosPerSecond \div TicksPerSecond(t)
    IN  [day |-> ti.day, sec |-> ti.sec, nsec |-> (ti.nsec \div unit) * unit, offset |-> 0]

\* C20: for every time t the encoder accepts, decode(encode(t)) is in UTC and
\* equals t truncated toward the earlier instant to whole microseconds
\* (TIMESTAMP), milliseconds (TIMESTAMP_MS) or seconds (TIMESTAMP_S), equals t
\* exactly for TIMESTAMP_NS, and the tick count does not overflow 64 bits.
C20_TimestampRoundTrip ==
    (conv.f = "getTSTicks" /\ conv.res.err = NoError) =>
        /\ FitsInt64(TicksOf(conv.val, TicksPerSecond(conv.t)), TicksPerSecond(conv.t))
        /\ conv.back = Truncated(conv.val, conv.t)

\* C21: for every time t, before or after 1970-01-01 and at any time of day,
\* date encode returns the number of days from 1970-01-01 to the UTC calendar
\* date of t, and decoding that number gives midnight UTC of the same date.
C21_DateIsUtcCalendarDay ==
    conv.f = "getMappedDate" =>
        /\ conv.date = conv.val.day
        /\ conv.back = [day |-> conv.val.day, sec |-> 0, nsec |-> 0, offset |-> 0]

\* C22: decoding an encoded Interval returns the same months, days and micros,
\* no field moved into another, so that two different intervals (30 days and
\* 1 month, say) stay different after a round trip.
C22_IntervalRoundTrip ==
    conv.f = "getMappedInterval" =>
        /\ conv.back = conv.val
        /\ conv.mapped = <<conv.val.Months, conv.val.Days, conv.val.Micros>>
        /\ \A other \in Intervals :
              other # conv.val => getInterval(getMappedInterval(other)) # conv.back

\* An interval of 30 days made the round trip and is no interval of 1 month.
C22_Witness ==
    /\ conv.f = "getMappedInterval"
    /\ conv.val = [Months |-> 0, Days |-> 30, Micros |-> 0]
    /\ conv.back.Days = 30 /\ conv.back.Months = 0
    /\ conv.back # getInterval(getMappedInterval([Months |-> 1, Days |-> 0, Micros |-> 0]))

\* C23: map decode returns every (key, value) pair of the list of the row and
\* keeps both pairs when two list entries have the same key: the number of
\* decoded pairs equals the list length.
C23_MapKeepsEveryPair ==
    conv.f = "getMap" =>
        /\ Cardinality(DOMAIN conv.m) = Len(conv.list)
        /\ \A i \in 1..Len(conv.list) :
              /\ conv.list[i].key \in DOMAIN conv.m
              /\ conv.m[conv.list[i].key] = conv.list[i].value

\* C24: struct building from a field-name-keyed host value gives exactly one
\* child value per declared field, in declared order, with an explicit null
\* for every declared field the host value lacks; it fails with an error when
\* the host value is no field-name-keyed map or when a present field cannot
\* be encoded.
C24_StructOneValuePerField ==
    conv.f = "getMappedStructValue" =>
        LET lt      == conv.lt
            val     == conv.val
            failing == \/ val = NotAMap
                       \/ \E i \in 1..Len(lt) : lt[i] \in DOMAIN val /\ val[lt[i]] = "bad"
        IN  IF failing
            THEN conv.res.err # nil /\ conv.res.value = NoValue
            ELSE /\ conv.res.err = nil
                 /\ Len(conv.res.value) = Len(lt)
                 /\ \A i \in 1..Len(lt) :
                       IF lt[i] \in DOMAIN val
                       THEN conv.res.value[i] = [field |-> lt[i], null |-> FALSE]
                       ELSE conv.res.value[i].null

\* A struct of three fields built from a host value that lacks the second
\* one and has a key that is no field.
C24_Witness ==
    /\ conv.f = "getMappedStructValue" /\ conv.res.err = nil
    /\ conv.lt = <<"b", "c", "a">>
    /\ conv.val # NotAMap /\ DOMAIN conv.val = {"a", "b", "x"}
    /\ conv.res.value[2].null /\ conv.res.value[3].field = "a"

----------------------------------------------------------------------------
\* C25: once Close has been called, every AppendRow call returns the
\* append-after-close error and leaves the chunk list and the row counter
\* unchanged: no chunk is allocated and no value is written.
C25_AppendAfterCloseRejected ==
    /\ ret.op = "Close" => closed
    /\ pre.closed => closed
    /\ (ret.op = "AppendRow" /\ pre.closed) =>
          /\ ret.err = {"errAppenderAppendAfterClose"}
          /\ chunks = pre.chunks /\ rowCount = pre.rowCount
          /\ trace = <<>>

\* An AppendRow with the right number of values on a closed appender.
C25_Witness ==
    /\ ret.op = "AppendRow" /\ pre.closed /\ ret.nargs = NumCols
    /\ ret.err = {"errAppenderAppendAfterClose"} /\ chunks = <<>>

\* The rows buffered in a chunk list with the given row counter.
Buffered(chs, rc) == IF Len(chs) = 0 THEN 0 ELSE (Len(chs) - 1) * capacity + rc

\* The rows the last operation handed to the engine, over all its append calls.
RECURSIVE SumSizes(_)
SumSizes(calls) ==
    IF Len(calls) = 0 THEN 0 ELSE calls[1].n + SumSizes(Tail(calls))

\* C26: in every reachable state the number of buffered rows,
\* (chunks - 1) * capacity + row counter when there is a chunk and 0 otherwise,
\* is the number of AppendRow calls that succeeded since the last Flush or
\* since construction; hence a Flush in which every engine call succeeds hands
\* the engine exactly that many rows.
C26_BufferedRowsAreAppendedRows ==
    /\ Buffered(chunks, rowCount) = okRows
    /\ (ret.op = "AppendRow" /\ ret.err = nil) =>
          Buffered(chunks, rowCount) = Buffered(pre.chunks, pre.rowCount) + 1
    /\ (ret.op = "AppendRow" /\ ret.err # nil) =>
          Buffered(chunks, rowCount) = Buffered(pre.chunks, pre.rowCount)
    /\ (ret.op = "Flush" /\ ret.err = nil) =>
          SumSizes(CallsOf("AppendDataChunk")) = Buffered(pre.chunks, pre.rowCount)

\* A Flush that succeeded after a failed row had opened a third chunk: the
\* rows of two full chunks were handed to the engine.
C26_Witness ==
    /\ ret.op = "Flush" /\ ret.err = nil
    /\ Len(pre.chunks) = 3 /\ pre.rowCount = 0
    /\ SumSizes(CallsOf("AppendDataChunk")) = 2 * capacity

\* C27: once Close has destroyed the native appender handle, no later Flush,
\* AppendRow or Close makes an engine call with that handle: a Flush after
\* Close calls neither the engine's append-chunk nor its flush nor its
\* error-string function with the destroyed handle.
C27_NoCallOnDestroyedHandle ==
    \A k \in 1..Len(trace) : trace[k].handle # "destroyed"

====
